---- MODULE Spec2Model ----
(***************************************************************************)
(* EddnRelay: the ingest loop (EddnListener.start), the fan-out relay      *)
(* (Relay.register_client / Relay.process_message), the predicate tree of  *)
(* filter.py and the retention store (MongoHandler.store_message).         *)
(*                                                                         *)
(* Scheduling is asyncio's: one thread, a task runs from one await to the  *)
(* next without interleaving.  Every action below is one such stretch.     *)
(***************************************************************************)
EXTENDS Integers, Sequences, FiniteSets, TLC

(***************************************************************************)
(* Bounds of the model.                                                    *)
(***************************************************************************)
MaxClients == 2   \* websocket channels that may connect (each connects once)
MaxFrames == 2    \* frames the upstream socket delivers

Channels == 1..MaxClients

(***************************************************************************)
(* Documents: decoded JSON values, tagged by their Python type.            *)
(***************************************************************************)
Null      == [k |-> "NoneType"]
Str(s)    == [k |-> "str", s |-> s]
IntV(n)   == [k |-> "int", n |-> n]
FloatV(n) == [k |-> "float", f |-> n]
List(xs)  == [k |-> "list", items |-> xs]
Dict(m)   == [k |-> "dict", m |-> m]

IsDict(d) == d.k = "dict"
IsList(d) == d.k = "list"
IsStr(d)  == d.k = "str"
Has(d, key) == IsDict(d) /\ key \in DOMAIN d.m

\* Python's bool(): None, "", 0, [] and {} are falsy.
Truthy(d) ==
    CASE d.k = "NoneType" -> FALSE
      [] d.k = "str"      -> d.s # ""
      [] d.k = "int"      -> d.n # 0
      [] d.k = "float"    -> d.f # 0
      [] d.k = "list"     -> d.items # <<>>
      [] d.k = "dict"     -> DOMAIN d.m # {}

\* Python's ==  on decoded JSON values: int and float compare by value.
PyEq(a, b) ==
    CASE a.k = "int"   /\ b.k = "float" -> a.n = b.f
      [] a.k = "float" /\ b.k = "int"   -> a.f = b.n
      [] OTHER                          -> a = b

\* str(): the text regex.match is applied to.
PyStr(d) ==
    CASE d.k = "str"      -> d.s
      [] d.k = "NoneType" -> "None"
      [] OTHER            -> "<repr>"

(***************************************************************************)
(* The events of the model (upstream documents).                           *)
(***************************************************************************)
EvScan ==
    Dict("$schemaRef" :> Str("journal/1") @@
         "message" :> Dict("event" :> Str("Scan") @@
                           "timestamp" :> Str("2025-06-06T17:00:00Z")))
EvJump ==
    Dict("$schemaRef" :> Str("journal/1") @@
         "header" :> Dict("gatewayTimestamp" :> Str("2025-06-06T18:00:00")) @@
         "message" :> Dict("event" :> Str("FSDJump")))
EvMarket ==
    Dict("$schemaRef" :> Str("commodity/3") @@
         "message" :> Dict("event" :> Str("Scan")))

\* Bodies is a sequence holding a mapping and a nested sequence; Tags is a
\* sequence of scalars.
EvBodies ==
    Dict("header" :> Dict("gatewayTimestamp" :> Str("2025-06-06T19:00:00Z")) @@
         "message" :> Dict("Bodies" :> List(<<Dict("Name" :> Str("A")),
                                              List(<<Dict("Name" :> Str("B"))>>)>>) @@
                           "Tags" :> List(<<Str("a"), Str("b")>>)))
\* event is null, Count is a number written as a string.
EvNull ==
    Dict("header" :> Dict("gatewayTimestamp" :> Str("2025-06-06T18:00:00+00:00")) @@
         "message" :> Dict("event" :> Null @@ "Count" :> Str("5") @@
                           "timestamp" :> Str("2025-06-06T18:00:00")))

\* Three events for store_message alone: both timestamps, of different hours;
\* an empty message.timestamp; top-level keys "timestamp" and "_id".
EvStamped ==
    Dict("_id" :> Str("abc") @@ "timestamp" :> Str("2025-06-06T17:00:00Z") @@
         "message" :> Dict("event" :> Str("Scan") @@
                           "timestamp" :> Str("2025-06-06T17:00:00Z")))
EvDocked ==
    Dict("header" :> Dict("gatewayTimestamp" :> Str("2025-06-06T19:00:00Z")) @@
         "message" :> Dict("event" :> Str("Docked") @@
                           "timestamp" :> Str("2025-06-06T17:00:00")))
EvEmptyTs ==
    Dict("header" :> Dict("gatewayTimestamp" :> Str("2025-06-06T18:00:00")) @@
         "message" :> Dict("event" :> Str("Docked") @@ "timestamp" :> Str("")))

EventIds == {"scan", "jump", "market", "bodies", "null"}
Event(id) ==
    CASE id = "scan"   -> EvScan
      [] id = "jump"   -> EvJump
      [] id = "market" -> EvMarket
      [] id = "bodies" -> EvBodies
      [] id = "null"   -> EvNull
      [] id = "docked" -> EvDocked
      [] id = "empty"  -> EvEmptyTs
      [] id = "stamped" -> EvStamped

\* What json.loads produces for the payload of a frame: any JSON value.  The
\* upstream of the model delivers two of the events and an empty array.
DecodedIds == {"scan", "market", "array"}
Decoded(id) == IF id = "array" THEN List(<<>>) ELSE Event(id)

(***************************************************************************)
(* Library functions, given by their value on the strings of the model.    *)
(***************************************************************************)
\* str.split('.')
Split(s) ==
    CASE s = "message.event"       -> <<"message", "event">>
      [] s = "message.timestamp"   -> <<"message", "timestamp">>
      [] s = "message.Count"       -> <<"message", "Count">>
      [] s = "message.Tags"        -> <<"message", "Tags">>
      [] s = "message.Bodies"      -> <<"message", "Bodies">>
      [] s = "message.Bodies.Name" -> <<"message", "Bodies", "Name">>
      [] OTHER                     -> <<s>>

\* '.'.join(path)
Join(path) ==
    CASE path = <<"message", "event">>          -> "message.event"
      [] path = <<"message", "timestamp">>      -> "message.timestamp"
      [] path = <<"message", "Count">>          -> "message.Count"
      [] path = <<"message", "Tags">>           -> "message.Tags"
      [] path = <<"message", "Bodies">>         -> "message.Bodies"
      [] path = <<"message", "Bodies", "Name">> -> "message.Bodies.Name"
      [] OTHER                                  -> path[1]

\* re.compile(pattern) raises re.error for an unterminated character set.
re_compile_ok(pattern) == pattern # "["

\* bool(regex.match(text)): a match at the start of text.
re_match(pattern, text) ==
    CASE pattern = "Scan"     -> text \in {"Scan"}
      [] pattern = ".*Jump.*" -> text \in {"FSDJump"}
      [] pattern = "Jump"     -> FALSE
      [] pattern = ".*"       -> TRUE
      [] OTHER                -> FALSE

\* A match anywhere in text, as the store's $regex finds it.
re_search(pattern, text) ==
    CASE pattern = "Scan"     -> text \in {"Scan"}
      [] pattern = ".*Jump.*" -> text \in {"FSDJump"}
      [] pattern = "Jump"     -> text \in {"FSDJump"}
      [] pattern = ".*"       -> TRUE
      [] OTHER                -> FALSE

\* float(x) for an int, a float or a str: ValueError for a str that is no
\* number.  Numbers of the model are whole, kept as integers.
float_ok(x) == x.k \in {"int", "float"} \/ (x.k = "str" /\ x.s \in {"1", "5", "10"})
float(x) ==
    CASE x.k = "float" -> x
      [] x.k = "int"   -> FloatV(x.n)
      [] x.s = "1"     -> FloatV(1)
      [] x.s = "5"     -> FloatV(5)
      [] x.s = "10"    -> FloatV(10)

\* datetime.fromisoformat: the wall-clock hour and the offset written in the
\* string (tzinfo "None" for a naive value).  All strings of the model are of
\* the same day.
fromisoformat(s) ==
    CASE s = "2025-06-06T17:00:00Z"      -> [ok |-> TRUE, hour |-> 17, tzinfo |-> "UTC"]
      [] s = "2025-06-06T17:00:00"       -> [ok |-> TRUE, hour |-> 17, tzinfo |-> "None"]
      [] s = "2025-06-06T18:00:00"       -> [ok |-> TRUE, hour |-> 18, tzinfo |-> "None"]
      [] s = "2025-06-06T18:00:00+00:00" -> [ok |-> TRUE, hour |-> 18, tzinfo |-> "UTC"]
      [] s = "2025-06-06T19:00:00Z"      -> [ok |-> TRUE, hour |-> 19, tzinfo |-> "UTC"]
      [] OTHER                           -> [ok |-> FALSE, exc |-> "ValueError"]

\* A datetime object.
Datetime(hour, tzinfo) == [k |-> "datetime", hour |-> hour, tzinfo |-> tzinfo]

\* a <= b on datetime objects: TypeError when one is naive and the other is
\* aware; all aware values of the model are UTC.
datetime_le(a, b) ==
    IF (a.tzinfo = "None") # (b.tzinfo = "None") THEN "TypeError"
    ELSE IF a.hour <= b.hour THEN "True" ELSE "False"

(***************************************************************************)
(* filter.py: the condition classes and their evaluation.                  *)
(***************************************************************************)
ExistsCondition(path)         == [type |-> "exists", path |-> path]
ExactCondition(path, value)   == [type |-> "exact", path |-> path, value |-> value]
RegexCondition(path, pattern) == [type |-> "regex", path |-> path, pattern |-> pattern]
AllCondition(conditions)      == [type |-> "all", conditions |-> conditions]
AnyCondition(conditions)      == [type |-> "any", conditions |-> conditions]
NotCondition(conditions)      == [type |-> "not", conditions |-> conditions]

RangeCondition(path, min_value, max_value) ==
    [type |-> "range", path |-> path, min_value |-> min_value, max_value |-> max_value]
DateRangeCondition(path, min_value, max_value) ==
    [type |-> "daterange", path |-> path, min_value |-> min_value,
     max_value |-> max_value]

\* The result of an evaluation: "True", "False", or the name of the exception
\* it raises.
PyBool(b) == IF b THEN "True" ELSE "False"

\* any(...) and all(...) over a generator: the results are taken in order up
\* to the first that decides; one that raises before that raises.
\* An any(...) that is true of no results.
RECURSIVE any_true_of_none(_)
any_true_of_none(results) ==
    IF results = <<>> THEN "True"
    ELSE IF Head(results) = "False" /\ Tail(results) # <<>>
         THEN any_true_of_none(Tail(results))
    ELSE Head(results)

RECURSIVE any(_)
any(results) ==
    IF results = <<>> THEN "False"
    ELSE IF Head(results) = "False" THEN any(Tail(results))
    ELSE Head(results)

RECURSIVE all(_)
all(results) ==
    IF results = <<>> THEN "True"
    ELSE IF Head(results) = "True" THEN all(Tail(results))
    ELSE Head(results)

\* min_check and max_check (lines 239-241, 295-297): min_check is evaluated
\* first; "and" does not short-circuit it.
BothChecks(min_check, max_check) ==
    IF min_check \notin {"True", "False"} THEN min_check
    ELSE IF max_check \notin {"True", "False"} THEN max_check
    ELSE PyBool(min_check = "True" /\ max_check = "True")

\* RangeCondition.check_value, lines 231-244.
RangeResult(c, current) ==
    IF current.k \notin {"int", "float", "str"} \/ ~float_ok(current) THEN "False"
    ELSE LET v == float(current).f
         IN BothChecks(IF c.min_value # Null THEN PyBool(v >= c.min_value.f) ELSE "True",
                       IF c.max_value # Null THEN PyBool(v <= c.max_value.f) ELSE "True")

\* DateRangeCondition.check_value, lines 290-300: only fromisoformat is inside
\* the try.
DateRangeResult(c, current) ==
    LET parsed == fromisoformat(PyStr(current))
    IN IF ~parsed.ok THEN "False"
       ELSE LET v == Datetime(parsed.hour, parsed.tzinfo)
            IN BothChecks(IF c.min_value # Null THEN datetime_le(c.min_value, v)
                          ELSE "True",
                          IF c.max_value # Null THEN datetime_le(v, c.max_value)
                          ELSE "True")

\* The test a leaf condition applies to the value its path resolved to.
LeafResult(c, current) ==
    CASE c.type = "exists"    -> PyBool(current # Null)
      [] c.type = "exact"     -> PyBool(PyEq(current, c.value))
      [] c.type = "regex"     -> PyBool(re_match(c.pattern, PyStr(current)))
      [] c.type = "range"     -> RangeResult(c, current)
      [] c.type = "daterange" -> DateRangeResult(c, current)

\* A check_value that looks at the first item of a list only.
RECURSIVE check_value_first_item(_, _, _)
check_value_first_item(c, current, path) ==
    IF path = <<>> THEN LeafResult(c, current)
    ELSE IF IsList(current)
         THEN IF current.items = <<>> THEN "False"
              ELSE check_value_first_item(c, current.items[1], path)
    ELSE IF ~IsDict(current) \/ Head(path) \notin DOMAIN current.m THEN "False"
    ELSE check_value_first_item(c, current.m[Head(path)], Tail(path))

\* check_value: walk the path; a list met where a key is still to be looked
\* up branches over its items with the path that remains.
RECURSIVE check_value(_, _, _)
check_value(c, current, path) ==
    IF path = <<>> THEN LeafResult(c, current)
    ELSE IF IsList(current)
         THEN any([i \in 1..Len(current.items) |->
                      check_value(c, current.items[i], path)])
    ELSE IF ~IsDict(current) \/ Head(path) \notin DOMAIN current.m THEN "False"
    ELSE check_value(c, current.m[Head(path)], Tail(path))

RECURSIVE matches(_, _)
matches(c, data) ==
    CASE c.type = "all" ->
            all([i \in 1..Len(c.conditions) |-> matches(c.conditions[i], data)])
      [] c.type = "any" ->
            any([i \in 1..Len(c.conditions) |-> matches(c.conditions[i], data)])
      [] c.type = "not" ->
            LET r == any([i \in 1..Len(c.conditions) |->
                             matches(c.conditions[i], data)])
            IN IF r \in {"True", "False"} THEN PyBool(r = "False") ELSE r
      [] OTHER -> check_value(c, data, c.path)

\* Filter(): root_condition = AllCondition([])
Filter == AllCondition(<<>>)

(***************************************************************************)
(* filter.py: to_mongo_query of each condition class.  A query document is *)
(* {} (EmptyQuery), {path: expression} or {"$and" / "$or" / "$nor": [...]}. *)
(***************************************************************************)
EmptyQuery == [op |-> "{}"]
FieldQuery(path, expr) == [op |-> "field", path |-> path, expr |-> expr]

\* RangeCondition / DateRangeCondition.to_mongo_query: the operators of the
\* bounds that are set, {} when none is.
BoundsQuery(c) ==
    IF c.min_value = Null /\ c.max_value = Null THEN EmptyQuery
    ELSE FieldQuery(Join(c.path), [operator |-> "bounds", gte |-> c.min_value,
                                   lte |-> c.max_value])

RECURSIVE to_mongo_query(_)
to_mongo_query(c) ==
    CASE c.type = "exists" -> FieldQuery(Join(c.path), [operator |-> "$exists"])
      [] c.type = "exact"  -> FieldQuery(Join(c.path), [operator |-> "$eq",
                                                        value |-> c.value])
      [] c.type = "regex"  -> FieldQuery(Join(c.path), [operator |-> "$regex",
                                                        pattern |-> c.pattern])
      [] c.type \in {"range", "daterange"} -> BoundsQuery(c)
      [] c.type \in {"all", "any", "not"} ->
            IF c.conditions = <<>> THEN EmptyQuery
            ELSE [op |-> CASE c.type = "all" -> "$and"
                           [] c.type = "any" -> "$or"
                           [] c.type = "not" -> "$nor",
                  args |-> [i \in 1..Len(c.conditions) |->
                               to_mongo_query(c.conditions[i])]]

(***************************************************************************)
(* The store's evaluation of a query document against a stored document    *)
(* (collection.find): dotted paths descend into the embedded documents of  *)
(* an array, an array at the end of the path is tested as a whole and item *)
(* by item, and a comparison only matches values of the type of its bound. *)
(***************************************************************************)
RECURSIVE Resolve(_, _)
Resolve(d, path) ==
    IF path = <<>> THEN {d}
    ELSE IF IsDict(d)
         THEN IF Head(path) \in DOMAIN d.m THEN Resolve(d.m[Head(path)], Tail(path))
              ELSE {}
    ELSE IF IsList(d)
         THEN UNION {Resolve(d.items[i], path) :
                        i \in {j \in 1..Len(d.items) : IsDict(d.items[j])}}
    ELSE {}

\* The values an expression is tested on.
Candidates(d, path) ==
    LET found == Resolve(d, path)
    IN found \cup UNION {{v.items[i] : i \in 1..Len(v.items)} :
                            v \in {w \in found : IsList(w)}}

\* x >= bound ("ge") or x <= bound ("le") in the store's order: numbers with
\* numbers, dates with dates (both as UTC instants).
Compares(x, how, bound) ==
    CASE bound.k = "float" ->
            /\ x.k \in {"int", "float"}
            /\ LET v == float(x).f
               IN IF how = "ge" THEN v >= bound.f ELSE v <= bound.f
      [] bound.k = "datetime" ->
            /\ x.k = "datetime"
            /\ IF how = "ge" THEN x.hour >= bound.hour ELSE x.hour <= bound.hour

FieldSelects(q, d) ==
    LET path == Split(q.path)
        xs == Candidates(d, path)
        e == q.expr
    IN CASE e.operator = "$exists" -> Resolve(d, path) # {}
         [] e.operator = "$eq" ->
                \/ \E x \in xs : PyEq(x, e.value)
                \/ e.value = Null /\ Resolve(d, path) = {}
         [] e.operator = "$regex" ->
                \E x \in xs : x.k = "str" /\ re_search(e.pattern, x.s)
         [] e.operator = "bounds" ->
                /\ e.gte # Null => \E x \in xs : Compares(x, "ge", e.gte)
                /\ e.lte # Null => \E x \in xs : Compares(x, "le", e.lte)
         [] e.operator = "$gt" ->
                \E x \in xs : x.k = "datetime" /\ x.hour > e.value.hour

RECURSIVE Selects(_, _)
Selects(q, d) ==
    CASE q.op = "{}"    -> TRUE
      [] q.op = "field" -> FieldSelects(q, d)
      [] q.op = "$and"  -> \A i \in 1..Len(q.args) : Selects(q.args[i], d)
      [] q.op = "$or"   -> \E i \in 1..Len(q.args) : Selects(q.args[i], d)
      [] q.op = "$nor"  -> ~(\E i \in 1..Len(q.args) : Selects(q.args[i], d))

(***************************************************************************)
(* relay.py: Relay._parse_condition.  The result is the condition built,   *)
(* or the exception raised.                                                *)
(***************************************************************************)
Built(c)   == [ok |-> TRUE, c |-> c]
Raised(e)  == [ok |-> FALSE, exc |-> e]

RECURSIVE _parse_condition(_)
RECURSIVE ParseConditions(_)

\* [self._parse_condition(c) for c in conditions]: the first failure raises.
ParseConditions(items) ==
    IF items = <<>> THEN [ok |-> TRUE, cs |-> <<>>]
    ELSE LET h == _parse_condition(Head(items))
         IN IF ~h.ok THEN h
            ELSE LET t == ParseConditions(Tail(items))
                 IN IF ~t.ok THEN t
                    ELSE [ok |-> TRUE, cs |-> <<h.c>> \o t.cs]

\* condition_data['conditions'] iterated by the comprehension.
IterConditions(d) ==
    IF "conditions" \notin DOMAIN d.m THEN Raised("KeyError")
    ELSE LET cs == d.m["conditions"]
         IN IF IsList(cs) THEN ParseConditions(cs.items)
            ELSE IF cs.k \in {"str", "dict"} /\ ~Truthy(cs)
                 THEN [ok |-> TRUE, cs |-> <<>>]
            ELSE Raised("TypeError")

\* condition_data['path'].split('.')
PathOf(d) ==
    IF "path" \notin DOMAIN d.m THEN Raised("KeyError")
    ELSE IF ~IsStr(d.m["path"]) THEN Raised("AttributeError")
    ELSE [ok |-> TRUE, path |-> Split(d.m["path"].s)]

_parse_condition(condition_data) ==
    IF ~IsDict(condition_data) THEN Raised("TypeError")
    ELSE IF "type" \notin DOMAIN condition_data.m THEN Raised("KeyError")
    ELSE LET type == condition_data.m["type"]
             p    == PathOf(condition_data)
             cs   == IterConditions(condition_data)
         IN CASE type = Str("exact") ->
                    IF ~p.ok THEN p
                    ELSE IF "value" \notin DOMAIN condition_data.m
                         THEN Raised("KeyError")
                    ELSE Built(ExactCondition(p.path, condition_data.m["value"]))
              [] type = Str("regex") ->
                    IF ~p.ok THEN p
                    ELSE IF "pattern" \notin DOMAIN condition_data.m
                         THEN Raised("KeyError")
                    ELSE IF ~IsStr(condition_data.m["pattern"])
                         THEN Raised("TypeError")
                    ELSE IF ~re_compile_ok(condition_data.m["pattern"].s)
                         THEN Raised("re.error")
                    ELSE Built(RegexCondition(p.path, condition_data.m["pattern"].s))
              [] type = Str("all") ->
                    IF ~cs.ok THEN cs ELSE Built(AllCondition(cs.cs))
              [] type = Str("any") ->
                    IF ~cs.ok THEN cs ELSE Built(AnyCondition(cs.cs))
              [] OTHER -> Raised("ValueError")

(***************************************************************************)
(* filter.py: Filter._parse_condition_from_json with the constructors of   *)
(* RangeCondition and DateRangeCondition.                                  *)
(***************************************************************************)

\* RangeCondition.__init__ (lines 209-217)
NewRangeCondition(path, min_value, max_value) ==
    IF min_value.k \notin {"float", "str", "NoneType"}
        \/ max_value.k \notin {"float", "str", "NoneType"}
    THEN Raised("ValueError")
    ELSE IF (min_value # Null /\ ~float_ok(min_value))
             \/ (max_value # Null /\ ~float_ok(max_value))
         THEN Raised("ValueError")
    ELSE Built(RangeCondition(path,
                              IF min_value # Null THEN float(min_value) ELSE Null,
                              IF max_value # Null THEN float(max_value) ELSE Null))

\* DateRangeCondition.__init__ (lines 268-276)
NewDateRangeCondition(path, min_value, max_value) ==
    IF min_value.k \notin {"str", "NoneType"} \/ max_value.k \notin {"str", "NoneType"}
    THEN Raised("ValueError")
    ELSE LET lo == IF Truthy(min_value) THEN fromisoformat(min_value.s)
                   ELSE [ok |-> TRUE]
             hi == IF Truthy(max_value) THEN fromisoformat(max_value.s)
                   ELSE [ok |-> TRUE]
         IN IF ~lo.ok \/ ~hi.ok THEN Raised("ValueError")
            ELSE Built(DateRangeCondition(path,
                          IF Truthy(min_value) THEN Datetime(lo.hour, lo.tzinfo)
                          ELSE Null,
                          IF Truthy(max_value) THEN Datetime(hi.hour, hi.tzinfo)
                          ELSE Null))

\* condition_data.get(key)
Get(d, key) == IF key \in DOMAIN d.m THEN d.m[key] ELSE Null

RECURSIVE _parse_condition_from_json(_)
RECURSIVE ParseConditionsFromJson(_)

ParseConditionsFromJson(items) ==
    IF items = <<>> THEN [ok |-> TRUE, cs |-> <<>>]
    ELSE LET h == _parse_condition_from_json(Head(items))
         IN IF ~h.ok THEN h
            ELSE LET t == ParseConditionsFromJson(Tail(items))
                 IN IF ~t.ok THEN t
                    ELSE [ok |-> TRUE, cs |-> <<h.c>> \o t.cs]

IterConditionsFromJson(d) ==
    IF "conditions" \notin DOMAIN d.m THEN Raised("KeyError")
    ELSE LET cs == d.m["conditions"]
         IN IF IsList(cs) THEN ParseConditionsFromJson(cs.items)
            ELSE IF cs.k \in {"str", "dict"} /\ ~Truthy(cs)
                 THEN [ok |-> TRUE, cs |-> <<>>]
            ELSE Raised("TypeError")

_parse_condition_from_json(condition_data) ==
    IF ~IsDict(condition_data) THEN Raised("TypeError")
    ELSE IF "type" \notin DOMAIN condition_data.m THEN Raised("KeyError")
    ELSE LET type == condition_data.m["type"]
             p    == PathOf(condition_data)
             cs   == IterConditionsFromJson(condition_data)
         IN CASE type = Str("exists") ->
                    IF ~p.ok THEN p ELSE Built(ExistsCondition(p.path))
              [] type = Str("exact") ->
                    IF ~p.ok THEN p
                    ELSE IF "value" \notin DOMAIN condition_data.m
                         THEN Raised("KeyError")
                    ELSE Built(ExactCondition(p.path, condition_data.m["value"]))
              [] type = Str("regex") ->
                    IF ~p.ok THEN p
                    ELSE IF "pattern" \notin DOMAIN condition_data.m
                         THEN Raised("KeyError")
                    ELSE IF ~IsStr(condition_data.m["pattern"])
                         THEN Raised("TypeError")
                    ELSE IF ~re_compile_ok(condition_data.m["pattern"].s)
                         THEN Raised("re.error")
                    ELSE Built(RegexCondition(p.path, condition_data.m["pattern"].s))
              [] type = Str("range") ->
                    IF ~p.ok THEN p
                    ELSE NewRangeCondition(p.path, Get(condition_data, "min_value"),
                                           Get(condition_data, "max_value"))
              [] type = Str("daterange") ->
                    IF ~p.ok THEN p
                    ELSE NewDateRangeCondition(p.path, Get(condition_data, "min_value"),
                                               Get(condition_data, "max_value"))
              [] type = Str("all") ->
                    IF ~cs.ok THEN cs ELSE Built(AllCondition(cs.cs))
              [] type = Str("any") ->
                    IF ~cs.ok THEN cs ELSE Built(AnyCondition(cs.cs))
              [] type = Str("not") ->
                    IF ~cs.ok THEN cs ELSE Built(NotCondition(cs.cs))
              [] OTHER -> Raised("ValueError")

\* new_filter.set_condition(condition): class Filter defines __init__,
\* _build_pattern, matches, set_filter_from_json, _parse_condition_from_json
\* and to_mongo_query; looking up set_condition raises AttributeError.
set_condition(new_filter, condition) == Raised("AttributeError")

(***************************************************************************)
(* Messages a subscriber may send on its channel.                          *)
(***************************************************************************)
DExact  == Dict("type" :> Str("exact") @@ "path" :> Str("message.event") @@
                "value" :> Str("Scan"))
DRegex  == Dict("type" :> Str("regex") @@ "path" :> Str("message.event") @@
                "pattern" :> Str(".*Jump.*"))
DSchema == Dict("type" :> Str("exact") @@ "path" :> Str("$schemaRef") @@
                "value" :> Str("journal/1"))
DAny    == Dict("type" :> Str("any") @@ "conditions" :> List(<<DExact, DRegex>>))
DAll    == Dict("type" :> Str("all") @@ "conditions" :> List(<<DSchema, DAny>>))
DExists == Dict("type" :> Str("exists") @@ "path" :> Str("message.event"))
DNot    == Dict("type" :> Str("not") @@ "conditions" :> List(<<DExact>>))
DRange  == Dict("type" :> Str("range") @@ "path" :> Str("message.event") @@
                "min_value" :> FloatV(1))
DDateRange == Dict("type" :> Str("daterange") @@ "path" :> Str("message.timestamp") @@
                   "min_value" :> Str("2025-06-06T17:00:00Z"))
DBadRegex  == Dict("type" :> Str("regex") @@ "path" :> Str("x") @@
                   "pattern" :> Str("["))
DUnknown   == Dict("type" :> Str("bogus") @@ "path" :> Str("x"))
DNoValue   == Dict("type" :> Str("exact") @@ "path" :> Str("message.event"))
DDeepBad   == Dict("type" :> Str("all") @@ "conditions" :> List(<<DExact, DNoValue>>))

\* Well-formed descriptions, one or more of each of the eight types.
ValidDescriptions ==
    {DExact, DRegex, DAny, DAll, DExists, DNot, DRange, DDateRange}
\* Descriptions no predicate can be constructed from.
InvalidDescriptions == {DBadRegex, DUnknown, DNoValue, DDeepBad}
Descriptions == ValidDescriptions \cup InvalidDescriptions

FilterMessage(d) == [json |-> TRUE, data |-> Dict("type" :> Str("filter") @@ "filter" :> d)]
PingMessage      == [json |-> TRUE, data |-> Dict("type" :> Str("ping"))]
NoTypeMessage    == [json |-> TRUE, data |-> Dict("filter" :> DExact)]
NoFilterMessage  == [json |-> TRUE, data |-> Dict("type" :> Str("filter"))]
ArrayMessage     == [json |-> TRUE, data |-> List(<<>>)]
GarbageMessage   == [json |-> FALSE, data |-> Null]

Messages ==
    {FilterMessage(d) : d \in Descriptions}
        \cup {PingMessage, NoTypeMessage, NoFilterMessage, ArrayMessage, GarbageMessage}

(***************************************************************************)
(* relay.py: the body of "async for message in websocket" for one message. *)
(* The result is what the loop body does: nothing, the installation of a   *)
(* new filter, or an exception.                                            *)
(***************************************************************************)
\* A loop body that raises ValueError for a type other than "filter".
OnMessageStrict(message) ==
    IF ~message.json THEN [r |-> "raise", exc |-> "JSONDecodeError"]
    ELSE IF ~IsDict(message.data) THEN [r |-> "raise", exc |-> "TypeError"]
    ELSE IF "type" \notin DOMAIN message.data.m THEN [r |-> "raise", exc |-> "KeyError"]
    ELSE [r |-> "raise", exc |-> "ValueError"]

\* A loop body that stores the filter as it is being built: when the
\* construction fails, the part built so far is what the registry holds.
OnMessagePartial(message) ==
    IF ~message.json THEN [r |-> "raise", exc |-> "JSONDecodeError"]
    ELSE IF ~IsDict(message.data) THEN [r |-> "raise", exc |-> "TypeError"]
    ELSE IF "type" \notin DOMAIN message.data.m THEN [r |-> "raise", exc |-> "KeyError"]
    ELSE IF message.data.m["type"] # Str("filter") THEN [r |-> "pass"]
    ELSE IF "filter" \notin DOMAIN message.data.m THEN [r |-> "raise", exc |-> "KeyError"]
    ELSE IF ~_parse_condition(message.data.m["filter"]).ok
         THEN [r |-> "install",
               filter |-> AllCondition(<<_parse_condition(DExact).c>>)]
         ELSE [r |-> "raise", exc |-> "AttributeError"]

OnMessage(message) ==
    IF ~message.json THEN [r |-> "raise", exc |-> "JSONDecodeError"]
    ELSE LET data == message.data
         IN IF ~IsDict(data) THEN [r |-> "raise", exc |-> "TypeError"]
            ELSE IF "type" \notin DOMAIN data.m THEN [r |-> "raise", exc |-> "KeyError"]
            ELSE IF data.m["type"] # Str("filter") THEN [r |-> "pass"]
            ELSE IF "filter" \notin DOMAIN data.m THEN [r |-> "raise", exc |-> "KeyError"]
            ELSE LET condition == _parse_condition(data.m["filter"])
                 IN IF ~condition.ok THEN [r |-> "raise", exc |-> condition.exc]
                    ELSE LET new_filter == set_condition(Filter, condition.c)
                         IN IF ~new_filter.ok
                            THEN [r |-> "raise", exc |-> new_filter.exc]
                            ELSE [r |-> "install", filter |-> new_filter.c]

\* OnMessage, evaluated once for each message of the model.
Outcome == [text \in Messages |-> OnMessage(text)]

\* The except clauses of register_client: these exceptions are caught and the
\* client is deleted from the registry; any other exception leaves the handler
\* with the registry untouched.
CaughtByRegister == {"ConnectionClosed", "JSONDecodeError", "KeyError", "ValueError"}

(***************************************************************************)
(* The registry Relay.clients: a dict, kept as the entry array of the      *)
(* interpreter (insertion order; a deleted key leaves a dummy entry).      *)
(***************************************************************************)
DUMMY == [ws |-> 0, filter |-> Filter]

LiveIndexes(cl)  == {i \in DOMAIN cl : cl[i] # DUMMY}
ma_used(cl)      == Cardinality(LiveIndexes(cl))
Registered(cl)   == {cl[i].ws : i \in LiveIndexes(cl)}
IndexOf(cl, ws)  == CHOOSE i \in LiveIndexes(cl) : cl[i].ws = ws
FilterOf(cl, ws) == cl[IndexOf(cl, ws)].filter

\* self.clients[websocket] = value
dict_setitem(cl, ws, value) ==
    IF ws \in Registered(cl)
    THEN [cl EXCEPT ![IndexOf(cl, ws)] = [ws |-> ws, filter |-> value]]
    ELSE Append(cl, [ws |-> ws, filter |-> value])

\* del self.clients[websocket]
dict_delitem(cl, ws) == [cl EXCEPT ![IndexOf(cl, ws)] = DUMMY]

\* iter(self.clients.items())
dict_iter(cl) == [di_used |-> ma_used(cl), di_pos |-> 1, len |-> ma_used(cl)]
NoIter == [di_used |-> 0, di_pos |-> 0, len |-> 0]

\* next() of the items iterator: RuntimeError when the dict changed size, or
\* when an entry turns up after as many as the dict held were produced.
dictiter_next(cl, it) ==
    IF it.di_used # ma_used(cl) THEN [r |-> "RuntimeError"]
    ELSE LET rest == {i \in LiveIndexes(cl) : i >= it.di_pos}
         IN IF rest = {} THEN [r |-> "StopIteration"]
            ELSE IF it.len = 0 THEN [r |-> "RuntimeError"]
            ELSE LET i == CHOOSE j \in rest : \A l \in rest : j <= l
                 IN [r |-> "item", ws |-> cl[i].ws, filter |-> cl[i].filter,
                     it |-> [di_used |-> it.di_used, di_pos |-> i + 1,
                             len |-> it.len - 1]]

\* The for loop of process_message from the iterator state it, up to its next
\* await: the send to the next client whose filter matches, the end of the
\* loop, or the RuntimeError of the iterator.
RECURSIVE FanOut(_, _, _)
FanOut(cl, it, message) ==
    LET n == dictiter_next(cl, it)
    IN IF n.r = "item"
       THEN LET m == matches(n.filter, message)
            IN CASE m = "True"  -> [r |-> "send", ws |-> n.ws, it |-> n.it]
                 [] m = "False" -> FanOut(cl, n.it, message)
                 [] OTHER       -> [r |-> m]
       ELSE n

(***************************************************************************)
(* eddn_listener.py: frames and what inflating and decoding make of them.  *)
(***************************************************************************)
EmptyFrame   == [data |-> "empty"]
GarbageFrame == [data |-> "garbage"]
Deflated(p)  == [data |-> "deflate", payload |-> p]

Payloads == {"not_utf8", "not_json"} \cup DecodedIds
Frames   == {EmptyFrame, GarbageFrame} \cup {Deflated(p) : p \in Payloads}

\* await self.subscriber.recv(): a frame, or a ZMQError (zmq.Again on timeout)
RecvResults ==
    {[ok |-> TRUE, frame |-> f] : f \in Frames}
        \cup {[ok |-> FALSE, exc |-> e] : e \in {"ZMQError", "Again"}}

zlib_decompress(frame) ==
    IF frame.data = "deflate" THEN [ok |-> TRUE, payload |-> frame.payload]
    ELSE Raised("zlib.error")

json_loads(payload) ==
    CASE payload = "not_utf8" -> Raised("UnicodeDecodeError")
      [] payload = "not_json" -> Raised("JSONDecodeError")
      [] OTHER                -> [ok |-> TRUE, id |-> payload]

\* The except clause of EddnListener.start.
CaughtByListener == {"ZMQError", "Again", "JSONDecodeError", "zlib.error"}

(***************************************************************************)
(* mongo_handler.py: store_message up to its await of insert_one.          *)
(***************************************************************************)
\* d.get(key, default)
DictGet(d, key, default) == IF key \in DOMAIN d.m THEN d.m[key] ELSE default

\* A store_message that leaves a naive timestamp naive.
StoreTimestampNaive(message) ==
    LET body   == DictGet(message, "message", Dict(<<>>))
        header == DictGet(message, "header", Dict(<<>>))
    IN IF ~IsDict(body) THEN Raised("AttributeError")
       ELSE LET t1 == DictGet(body, "timestamp", Null)
            IN IF ~Truthy(t1) /\ ~IsDict(header) THEN Raised("AttributeError")
               ELSE LET timestamp == IF Truthy(t1) THEN t1
                                     ELSE DictGet(header, "gatewayTimestamp", Null)
                    IN IF ~Truthy(timestamp) THEN Raised("ValueError")
                       ELSE IF ~IsStr(timestamp) THEN Raised("TypeError")
                       ELSE fromisoformat(timestamp.s)

StoreTimestamp(message) ==
    LET body   == DictGet(message, "message", Dict(<<>>))
        header == DictGet(message, "header", Dict(<<>>))
    IN IF ~IsDict(body) THEN Raised("AttributeError")
       ELSE LET t1 == DictGet(body, "timestamp", Null)
            IN IF ~Truthy(t1) /\ ~IsDict(header) THEN Raised("AttributeError")
               ELSE LET timestamp == IF Truthy(t1) THEN t1
                                     ELSE DictGet(header, "gatewayTimestamp", Null)
                    IN IF ~Truthy(timestamp) THEN Raised("ValueError")
                       ELSE IF ~IsStr(timestamp) THEN Raised("TypeError")
                       ELSE LET dt == fromisoformat(timestamp.s)
                            IN IF ~dt.ok THEN dt
                               ELSE [ok |-> TRUE, hour |-> dt.hour,
                                     tzinfo |-> IF dt.tzinfo = "None" THEN "UTC"
                                                ELSE dt.tzinfo]

\* The entry insert_one adds for document id, the seq-th decoded: the document
\* with its key "timestamp" set (line 43).
StoredEntry(seq, id) ==
    LET ts == StoreTimestamp(Decoded(id))
    IN [seq |-> seq, id |-> id, timestamp |-> Datetime(ts.hour, ts.tzinfo)]

\* The document in the collection: the key "timestamp" is assigned (line 43)
\* and insert_one has given the document the key "_id" if it had none.
ObjectId(n) == [k |-> "ObjectId", n |-> n]
StoredDocument(entry) ==
    Dict(("timestamp" :> entry.timestamp) @@ Event(entry.id).m
            @@ ("_id" :> ObjectId(entry.seq)))

(***************************************************************************)
(* State.                                                                  *)
(***************************************************************************)
VARIABLES
    clients,        \* Relay.clients
    handler,        \* per channel: the register_client coroutine
    chan,           \* per channel: the state of the connection
    last_sent,      \* per channel: the document of the last send that ended
    USE_MONGODB,    \* constants.USE_MONGODB
    pc,             \* EddnListener.start: the await it is suspended at
    exc,            \* the exception that ended EddnListener.start, if any
    sweep,          \* process_message: the items iterator and the client awaited
    nframes,        \* results returned by subscriber.recv() so far
    message,        \* EddnListener.start local: the document decoded last
    ndecoded,       \* number of documents json.loads has returned
    relayed,        \* the process_message calls made (number of the document)
    store_calls,    \* the store_message calls made (number of the document)
    stored,         \* the collection db.messages
    message_count,  \* EddnListener.start local
    error_count,    \* EddnListener.start local
    root_condition, \* Filter.root_condition of a Filter object
    call,           \* the last call made on the Filter or the store, its result
    now,            \* the clock of the store, in hours since 2025-06-06T00:00Z
    lifespan,       \* application.lifespan: the line it is suspended at
    subscriber,     \* EddnListener.subscriber: the state of the socket
    context,        \* EddnListener.context: the state of the ZeroMQ context
    added           \* the keys store_message has added to the dict of message

vars == <<clients, handler, chan, last_sent, USE_MONGODB, pc, exc, sweep, nframes,
          message, ndecoded, relayed, store_calls, stored, message_count,
          error_count, root_condition, call, now, lifespan, subscriber, context,
          added>>

NoException == [type |-> "none", in |-> "none"]
NoSweep     == [seq |-> 0, it |-> NoIter, target |-> 0, members |-> {},
                json_message |-> Null]
NoCall      == [op |-> "none"]

Init ==
    /\ clients = <<>>
    /\ handler = [c \in Channels |-> "idle"]
    /\ chan = [c \in Channels |-> "new"]
    /\ last_sent = [c \in Channels |-> 0]
    /\ USE_MONGODB \in BOOLEAN
    /\ pc = "start"
    /\ exc = NoException
    /\ sweep = NoSweep
    /\ nframes = 0
    /\ message = "none"
    /\ ndecoded = 0
    /\ relayed = <<>>
    /\ store_calls = <<>>
    /\ stored = <<>>
    /\ message_count = 0
    /\ error_count = 0
    /\ root_condition = Filter
    /\ call = NoCall
    /\ now = 0
    /\ lifespan = "yield"
    /\ subscriber = "none"
    /\ context = "none"
    /\ added = {}

(***************************************************************************)
(* relay.py: register_client, one action per stretch between two awaits.   *)
(* handler[c] is "idle" before the connection, "running" while the         *)
(* coroutine is suspended in "async for" and "done" once it has returned   *)
(* or an exception has left it.  chan[c] is "new", "open", "stalled"       *)
(* (open, but a send does not complete), "closed" (send raises             *)
(* ConnectionClosed) or "broken" (send raises another exception).          *)
(***************************************************************************)
\* Lines 35-38: the client is entered with Filter() and the handler awaits
\* the first message.  Channels are numbered in the order they connect.
Connect(c) ==
    /\ chan[c] = "new"
    /\ \A b \in Channels : b < c => chan[b] # "new"
    /\ clients' = dict_setitem(clients, c, Filter)
    /\ handler' = [handler EXCEPT ![c] = "running"]
    /\ chan' = [chan EXCEPT ![c] = "open"]
    /\ UNCHANGED <<added, lifespan, subscriber, context, now, root_condition, call, last_sent, USE_MONGODB, pc, exc, sweep,
                   nframes, message, ndecoded, relayed, store_calls, stored,
                   message_count, error_count>>

\* Lines 46-51: an exception leaves the loop.  The caught ones delete the
\* client and register_client returns; the others propagate with the
\* registry as it is.
HandlerRaises(c, e) ==
    /\ clients' = IF e \in CaughtByRegister THEN dict_delitem(clients, c) ELSE clients
    /\ handler' = [handler EXCEPT ![c] = "done"]

\* Lines 38-45: one message from the client.  When the handler ends, the
\* server closes the connection.
Receive(c, text) ==
    /\ handler[c] = "running"
    /\ LET o == Outcome[text]
       IN CASE o.r = "pass" ->
                 UNCHANGED <<clients, handler, chan>>
            [] o.r = "install" ->
                 /\ clients' = dict_setitem(clients, c, o.filter)
                 /\ UNCHANGED <<handler, chan>>
            [] o.r = "raise" ->
                 /\ HandlerRaises(c, o.exc)
                 /\ chan' = [chan EXCEPT ![c] = "closed"]
    /\ UNCHANGED <<added, lifespan, subscriber, context, now, root_condition, call, last_sent, USE_MONGODB, pc, exc, sweep,
                   nframes, message, ndecoded, relayed, store_calls, stored,
                   message_count, error_count>>

\* Line 38 when the connection ends.  After a close handshake ("ok") the
\* iteration stops: the loop ends and no except clause runs.  After a lost
\* connection ("error") it raises ConnectionClosed.  A transport failing in
\* another way ("broken") raises its own exception, in the iteration and in
\* every later send.
Disconnect(c, how) ==
    /\ handler[c] = "running"
    /\ CASE how = "ok" ->
                /\ handler' = [handler EXCEPT ![c] = "done"]
                /\ UNCHANGED clients
         [] how = "error"  -> HandlerRaises(c, "ConnectionClosed")
         [] how = "broken" -> HandlerRaises(c, "Exception")
    /\ chan' = [chan EXCEPT ![c] = IF how = "broken" THEN "broken" ELSE "closed"]
    /\ UNCHANGED <<added, lifespan, subscriber, context, now, root_condition, call, last_sent, USE_MONGODB, pc, exc, sweep,
                   nframes, message, ndecoded, relayed, store_calls, stored,
                   message_count, error_count>>

\* The peer stops reading / reads again: a send to a stalled channel does
\* not complete.
Stall(c) ==
    /\ chan[c] = "open"
    /\ chan' = [chan EXCEPT ![c] = "stalled"]
    /\ UNCHANGED <<added, lifespan, subscriber, context, now, root_condition, call, clients, handler, last_sent, USE_MONGODB, pc,
                   exc, sweep, nframes, message, ndecoded, relayed, store_calls,
                   stored, message_count, error_count>>

Unstall(c) ==
    /\ chan[c] = "stalled"
    /\ chan' = [chan EXCEPT ![c] = "open"]
    /\ UNCHANGED <<added, lifespan, subscriber, context, now, root_condition, call, clients, handler, last_sent, USE_MONGODB, pc,
                   exc, sweep, nframes, message, ndecoded, relayed, store_calls,
                   stored, message_count, error_count>>

(***************************************************************************)
(* eddn_listener.py: EddnListener.start, with the calls it awaits          *)
(* (Relay.process_message, MongoHandler.store_message).  The listener's    *)
(* variables are handled as one record l.                                  *)
(***************************************************************************)
Listener ==
    [pc |-> pc, exc |-> exc, sweep |-> sweep, message |-> message,
     ndecoded |-> ndecoded, relayed |-> relayed, store_calls |-> store_calls,
     message_count |-> message_count, error_count |-> error_count,
     added |-> added]

SetListener(l) ==
    /\ pc' = l.pc
    /\ exc' = l.exc
    /\ sweep' = l.sweep
    /\ message' = l.message
    /\ ndecoded' = l.ndecoded
    /\ relayed' = l.relayed
    /\ store_calls' = l.store_calls
    /\ message_count' = l.message_count
    /\ error_count' = l.error_count
    /\ added' = l.added

\* An exception no except clause of start catches ends the task.
Die(l, type, where) ==
    [l EXCEPT !.pc = "dead", !.exc = [type |-> type, in |-> where]]

\* Lines 83-91: count the error and sleep 5 seconds.
BackOff(l) == [l EXCEPT !.error_count = @ + 1, !.pc = "sleep"]

\* Lines 76-77 (with store_message lines 29-43, up to insert_one) and, when
\* the store is not used, line 77 and the return to recv.
\* A loop that does not await store_message before its next recv.
AfterProcessMessageNoAwait(l) ==
    LET seq == l.ndecoded
        ended == [l EXCEPT !.sweep = NoSweep]
    IN IF USE_MONGODB
       THEN [ended EXCEPT !.store_calls = Append(@, seq),
                          !.message_count = @ + 1, !.pc = "recv"]
       ELSE [ended EXCEPT !.message_count = @ + 1, !.pc = "recv"]

AfterProcessMessage(l) ==
    LET seq == l.ndecoded
        ended == [l EXCEPT !.sweep = NoSweep]
    IN IF USE_MONGODB
       THEN LET called == [ended EXCEPT !.store_calls = Append(@, seq)]
                ts == StoreTimestamp(Decoded(l.message))
            IN IF ts.ok THEN [called EXCEPT !.pc = "insert_one",
                                            !.added = {"timestamp"}]
               ELSE Die(called, ts.exc, "store_message")
       ELSE [ended EXCEPT !.message_count = @ + 1, !.pc = "recv"]

\* A loop that would take a new iterator over the clients after every send.
ResumeFromFirst(l, cl, it) ==
    LET r == FanOut(cl, dict_iter(cl), Decoded(l.message))
    IN CASE r.r = "send" ->
                [l EXCEPT !.pc = "send",
                          !.sweep = [@ EXCEPT !.it = r.it, !.target = r.ws]]
         [] r.r = "StopIteration" -> AfterProcessMessage(l)
         [] OTHER -> Die(l, r.r, "process_message")

\* relay.py lines 103-109: the loop runs on from iterator state it.
Resume(l, cl, it) ==
    LET r == FanOut(cl, it, Decoded(l.message))
    IN CASE r.r = "send" ->
                [l EXCEPT !.pc = "send",
                          !.sweep = [@ EXCEPT !.it = r.it, !.target = r.ws]]
         [] r.r = "StopIteration" -> AfterProcessMessage(l)
         [] OTHER -> Die(l, r.r, "process_message")

\* The dict the local variable message of start is bound to: the document
\* decoded last, with the keys store_message has added to it.
MessageObject(l) ==
    LET doc == Decoded(l.message)
        ts  == StoreTimestamp(doc)
        value(key) == IF key = "_id" THEN ObjectId(l.ndecoded)
                      ELSE IF ts.ok THEN Datetime(ts.hour, ts.tzinfo)
                      ELSE Null
    IN Dict([key \in l.added |-> value(key)] @@ doc.m)

\* json.dumps of a dict: its text (kept as the document it is the text of),
\* or TypeError for a value that is a datetime or an ObjectId.
json_dumps(doc) ==
    IF \E key \in DOMAIN doc.m : doc.m[key].k \in {"datetime", "ObjectId"}
    THEN Raised("TypeError")
    ELSE [ok |-> TRUE, text |-> doc]

\* A process_message that is called when store_message has returned.
process_message_after_store(l, cl) ==
    LET seq == l.ndecoded
        json_message == json_dumps(MessageObject([l EXCEPT !.added = {"timestamp", "_id"}]))
        called == [l EXCEPT !.relayed = Append(@, seq)]
    IN IF ~json_message.ok THEN Die(called, json_message.exc, "json.dumps")
       ELSE Resume([called EXCEPT !.sweep = [seq |-> seq, it |-> dict_iter(cl),
                                            target |-> 0, members |-> Registered(cl),
                                            json_message |-> json_message.text]],
                   cl, dict_iter(cl))

\* relay.py lines 95-103: process_message is entered with the document
\* decoded last and serializes it once (line 99).
process_message(l, cl) ==
    LET seq == l.ndecoded
        json_message == json_dumps(MessageObject(l))
        called == [l EXCEPT !.relayed = Append(@, seq)]
    IN IF ~json_message.ok THEN Die(called, json_message.exc, "json.dumps")
       ELSE Resume([called EXCEPT !.sweep = [seq |-> seq, it |-> dict_iter(cl),
                                            target |-> 0, members |-> Registered(cl),
                                            json_message |-> json_message.text]],
                   cl, dict_iter(cl))

\* Lines 65-74: what one result of recv leads to, up to the next await.
OnRecv(l, cl, res) ==
    IF ~res.ok THEN BackOff(l)
    ELSE IF res.frame = EmptyFrame THEN l
    ELSE LET z == zlib_decompress(res.frame)
         IN IF ~z.ok THEN BackOff(l)
            ELSE LET j == json_loads(z.payload)
                 IN IF ~j.ok
                    THEN IF j.exc \in CaughtByListener THEN BackOff(l)
                         ELSE Die(l, j.exc, "start")
                    ELSE LET got == [l EXCEPT !.message = j.id, !.ndecoded = @ + 1,
                                              !.added = {}]
                         IN IF ~IsDict(Decoded(j.id))
                            THEN Die(got, "AttributeError", "start")
                            ELSE process_message(got, cl)

\* The first step of the task: EddnListener() (lines 36-41: the context and
\* the connected socket) and start up to its first await (lines 57-61).
Start ==
    /\ pc = "start"
    /\ pc' = IF USE_MONGODB THEN "initialize" ELSE "recv"
    /\ subscriber' = "open"
    /\ context' = "active"
    /\ UNCHANGED <<added, lifespan, now, root_condition, call, clients, handler, chan, last_sent,
                   USE_MONGODB, exc, sweep, nframes, message, ndecoded, relayed,
                   store_calls, stored, message_count, error_count>>

\* An initialize whose failure is logged and not raised again.
InitializeSwallows(ok) ==
    /\ pc = "initialize"
    /\ SetListener(IF ok THEN [Listener EXCEPT !.pc = "recv"]
                   ELSE [Listener EXCEPT !.pc = "recv",
                                         !.exc = [type |-> "Exception",
                                                  in |-> "initialize"]])
    /\ UNCHANGED <<lifespan, subscriber, context, now, root_condition, call,
                   clients, handler, chan, last_sent, USE_MONGODB, nframes, stored>>

\* mongo_handler.py lines 19-27: the index creation succeeds or raises.
Initialize(ok) ==
    /\ pc = "initialize"
    /\ SetListener(IF ok THEN [Listener EXCEPT !.pc = "recv"]
                   ELSE Die(Listener, "Exception", "initialize"))
    /\ UNCHANGED <<lifespan, subscriber, context, now, root_condition, call, clients, handler, chan, last_sent,
                   USE_MONGODB, nframes, stored>>

\* Line 65: recv returns; the loop body runs to its next await.
Recv(res) ==
    /\ pc = "recv"
    /\ nframes < MaxFrames
    /\ nframes' = nframes + 1
    /\ SetListener(OnRecv(Listener, clients, res))
    /\ UNCHANGED <<lifespan, subscriber, context, now, root_condition, call, clients, handler, chan, last_sent,
                   USE_MONGODB, stored>>

\* Line 91: the back-off sleep is over.
WakeUp ==
    /\ pc = "sleep"
    /\ pc' = "recv"
    /\ UNCHANGED <<added, lifespan, subscriber, context, now, root_condition, call, clients, handler, chan, last_sent,
                   USE_MONGODB, exc, sweep, nframes, message, ndecoded, relayed,
                   store_calls, stored, message_count, error_count>>

\* relay.py lines 106-109: the awaited send ends.  It succeeds on an open
\* connection, raises ConnectionClosed (caught: continue) on a closed one and
\* another exception (not caught) on a broken one; on a stalled connection it
\* does not end.
SendResult(state) ==
    CASE state = "open" -> "ok"
      [] state = "closed" -> "ConnectionClosed"
      [] state = "broken" -> "Exception"

SendEnds ==
    /\ pc = "send"
    /\ chan[sweep.target] # "stalled"
    /\ LET c == sweep.target
           result == SendResult(chan[c])
       IN /\ last_sent' = [last_sent EXCEPT ![c] = sweep.seq]
          /\ SetListener(IF result = "Exception"
                         THEN Die(Listener, "Exception", "process_message")
                         ELSE Resume(Listener, clients, sweep.it))
    /\ UNCHANGED <<lifespan, subscriber, context, now, root_condition, call, clients, handler, chan, USE_MONGODB, nframes,
                   stored>>

\* mongo_handler.py lines 45-49: insert_one returns or raises (re-raised).
\* It has given the dict it was passed the key "_id".
InsertOne(ok) ==
    /\ pc = "insert_one"
    /\ LET l == [Listener EXCEPT !.added = @ \cup {"_id"}]
       IN IF ok
          THEN /\ stored' = Append(stored, StoredEntry(ndecoded, message))
               /\ SetListener([l EXCEPT !.message_count = @ + 1, !.pc = "recv"])
          ELSE /\ stored' = stored
               /\ SetListener(Die(l, "Exception", "store_message"))
    /\ UNCHANGED <<lifespan, subscriber, context, now, root_condition, call, clients, handler, chan, last_sent,
                   USE_MONGODB, nframes>>

Next ==
    \/ \E c \in Channels : Connect(c)
    \/ \E c \in Channels, text \in Messages : Receive(c, text)
    \/ \E c \in Channels, how \in {"ok", "error", "broken"} : Disconnect(c, how)
    \/ \E c \in Channels : Stall(c)
    \/ \E c \in Channels : Unstall(c)
    \/ Start
    \/ \E ok \in BOOLEAN : Initialize(ok)
    \/ \E res \in RecvResults : Recv(res)
    \/ WakeUp
    \/ SendEnds
    \/ \E ok \in BOOLEAN : InsertOne(ok)

Spec == Init /\ [][Next]_vars

(***************************************************************************)
(* application.py: the shutdown half of lifespan (lines 44-51).  The task  *)
(* of start_eddn_listener is cancelled and awaited.  CancelledError is     *)
(* raised in the task at the await it is suspended in; no except clause of *)
(* start, process_message, store_message or start_eddn_listener catches   *)
(* it.  Nothing in application.py calls EddnListener.stop (the listener is *)
(* a local variable of start_eddn_listener), so the socket and the context *)
(* are closed only if the finalizers of the released listener object close *)
(* them, which depends on what else holds the socket (the event loop keeps *)
(* its reader callback): both outcomes are taken.                          *)
(***************************************************************************)
\* Lines 45-48: listener_task.cancel() and the await of the task.
Cancel ==
    /\ lifespan = "yield"
    /\ lifespan' = "await"
    /\ UNCHANGED <<added, clients, handler, chan, last_sent, USE_MONGODB, pc, exc, sweep,
                   nframes, message, ndecoded, relayed, store_calls, stored,
                   message_count, error_count, root_condition, call, now,
                   subscriber, context>>

\* The next step of the cancelled task: CancelledError leaves it (a task that
\* has not started yet never runs).
Cancelled ==
    /\ lifespan = "await"
    /\ pc \notin {"dead", "cancelled"}
    /\ pc' = "cancelled"
    /\ exc' = [type |-> "CancelledError", in |-> "start"]
    /\ UNCHANGED <<added, clients, handler, chan, last_sent, USE_MONGODB, sweep,
                   nframes, message, ndecoded, relayed, store_calls, stored,
                   message_count, error_count, root_condition, call, now,
                   lifespan, subscriber, context>>

\* Lines 48-51: the await ends.  CancelledError is caught and the shutdown
\* completes; the exception of a task that had ended before is raised again
\* and leaves lifespan.
ShutdownEnds(finalized) ==
    /\ lifespan = "await"
    /\ pc \in {"dead", "cancelled"}
    /\ lifespan' = IF pc = "cancelled" THEN "completed" ELSE "raised"
    /\ IF finalized /\ subscriber = "open"
       THEN subscriber' = "closed" /\ context' = "terminated"
       ELSE UNCHANGED <<subscriber, context>>
    /\ UNCHANGED <<added, clients, handler, chan, last_sent, USE_MONGODB, pc, exc, sweep,
                   nframes, message, ndecoded, relayed, store_calls, stored,
                   message_count, error_count, root_condition, call, now>>

ShutdownNext ==
    \/ Next
    \/ Cancel
    \/ Cancelled
    \/ \E finalized \in BOOLEAN : ShutdownEnds(finalized)

ShutdownSpec == Init /\ [][ShutdownNext]_vars

(***************************************************************************)
(* The predicate model and the retention query on their own: calls of      *)
(* Filter.set_filter_from_json and Filter.matches on one Filter object,    *)
(* and calls of MongoHandler.get_messages on a collection that earlier     *)
(* runs of the listener have filled.  get_messages works on a Filter of    *)
(* its own and changes nothing, so a behaviour makes calls of the one kind *)
(* or of the other: mixing them adds no result of either.                  *)
(***************************************************************************)
MaxStored == 3   \* documents in the collection

DAllEmpty   == Dict("type" :> Str("all") @@ "conditions" :> List(<<>>))
DAnyEmpty   == Dict("type" :> Str("any") @@ "conditions" :> List(<<>>))
DNotEmpty   == Dict("type" :> Str("not") @@ "conditions" :> List(<<>>))
DRangeNone  == Dict("type" :> Str("range") @@ "path" :> Str("message.Count"))
DRangeCount == Dict("type" :> Str("range") @@ "path" :> Str("message.Count") @@
                    "min_value" :> FloatV(1) @@ "max_value" :> FloatV(10))
DRangeMin   == Dict("type" :> Str("range") @@ "path" :> Str("message.Count") @@
                    "min_value" :> FloatV(10))
DRangeMax   == Dict("type" :> Str("range") @@ "path" :> Str("message.Count") @@
                    "max_value" :> FloatV(1))
DRangeInt   == Dict("type" :> Str("range") @@ "path" :> Str("message.Count") @@
                    "min_value" :> IntV(1) @@ "max_value" :> IntV(10))
DDateNaive  == Dict("type" :> Str("daterange") @@ "path" :> Str("message.timestamp") @@
                    "min_value" :> Str("2025-06-06T17:00:00"))
DDateMax    == Dict("type" :> Str("daterange") @@ "path" :> Str("message.timestamp") @@
                    "max_value" :> Str("2025-06-06T17:00:00Z"))
DDateEmpty  == Dict("type" :> Str("daterange") @@ "path" :> Str("message.timestamp") @@
                    "min_value" :> Str(""))
DDateBad    == Dict("type" :> Str("daterange") @@ "path" :> Str("message.timestamp") @@
                    "min_value" :> Str("yesterday"))
DBodiesName == Dict("type" :> Str("exact") @@ "path" :> Str("message.Bodies.Name") @@
                    "value" :> Str("B"))
DTags       == Dict("type" :> Str("exact") @@ "path" :> Str("message.Tags") @@
                    "value" :> Str("a"))
DExistsTags == Dict("type" :> Str("exists") @@ "path" :> Str("message.Tags"))
DNoType       == Dict("path" :> Str("message.event"))
DNoPath       == Dict("type" :> Str("exists"))
DNoPattern    == Dict("type" :> Str("regex") @@ "path" :> Str("message.event"))
DNoConditions == Dict("type" :> Str("not"))
DNoFilters    == Dict(<<>>)   \* data.get("filters", {}) of a request without filters

\* The descriptions set_filter_from_json is called with.
QueryDescriptions ==
    Descriptions \cup
    {DAllEmpty, DAnyEmpty, DNotEmpty, DRangeNone, DRangeCount, DRangeMin, DRangeMax,
     DRangeInt, DDateNaive, DDateMax, DDateEmpty, DDateBad, DBodiesName, DTags,
     DExistsTags, DNoType, DNoPath, DNoPattern, DNoConditions, DNoFilters}

\* The arguments get_messages is called with.
GetConditions ==
    {DAllEmpty, DAnyEmpty, DNotEmpty, DExact, DExists, DRegex, DRangeNone, DRangeCount,
     DDateNaive, DDateMax, DBodiesName, DTags, DBadRegex, DUnknown, DDeepBad,
     DDateBad, DDateEmpty, DNoFilters}
AfterTimestamps ==
    {Null, Str("2025-06-06T18:00:00"), Str("2025-06-06T17:00:00Z"), Str("yesterday")}
MaxItems == {Null, IntV(0), IntV(1), IntV(2)}

\* The collection: the documents store_message has inserted, in the order of
\* their arrival (their timestamps are 18:00, 19:00, 18:00 and 17:00 UTC).
Arrivals == <<"null", "bodies", "jump", "scan">>
Min(a, b) == IF a <= b THEN a ELSE b
Collections ==
    {[i \in 1..n |-> StoredEntry(i, Arrivals[i])] :
        n \in 0..Min(MaxStored, Len(Arrivals))}

EvalInit ==
    /\ clients = <<>>
    /\ handler = [c \in Channels |-> "idle"]
    /\ chan = [c \in Channels |-> "new"]
    /\ last_sent = [c \in Channels |-> 0]
    /\ USE_MONGODB = TRUE
    /\ pc = "start"
    /\ exc = NoException
    /\ sweep = NoSweep
    /\ nframes = 0
    /\ message = "none"
    /\ ndecoded = 0
    /\ relayed = <<>>
    /\ store_calls = <<>>
    /\ stored \in Collections
    /\ message_count = 0
    /\ error_count = 0
    /\ root_condition = Filter
    /\ call = NoCall
    /\ now = 0
    /\ lifespan = "yield"
    /\ subscriber = "none"
    /\ context = "none"
    /\ added = {}

relay_vars == <<clients, handler, chan, last_sent, USE_MONGODB, pc, exc, sweep, nframes,
                message, ndecoded, relayed, store_calls, message_count, error_count,
                lifespan, subscriber, context, added>>

\* _parse_condition_from_json, evaluated once for each description.
Parsed == [d \in QueryDescriptions |-> _parse_condition_from_json(d)]

\* filter.py lines 476-481: root_condition is assigned when the parse has
\* returned; _build_pattern formats strings and raises nothing.
SetFilterFromJson(condition_data) ==
    /\ call.op # "get_messages"
    /\ LET parsed == Parsed[condition_data]
       IN /\ root_condition' = IF parsed.ok THEN parsed.c ELSE root_condition
          /\ call' = [op |-> "set_filter_from_json", condition_data |-> condition_data,
                      exc |-> IF parsed.ok THEN "none" ELSE parsed.exc]
    /\ UNCHANGED <<relay_vars, stored, now>>

\* filter.py lines 451-463.
Matches(id) ==
    /\ call.op # "get_messages"
    /\ call' = [op |-> "matches", data |-> id,
                result |-> matches(root_condition, Event(id))]
    /\ UNCHANGED <<relay_vars, stored, root_condition, now>>

(***************************************************************************)
(* mongo_handler.py: get_messages.  Every exception is caught and None is  *)
(* returned (lines 91-93).                                                 *)
(***************************************************************************)
\* Lines 55-73: the query document find is called with.
GetQuery(conditions, after_timestamp) ==
    LET parsed == _parse_condition_from_json(conditions)
    IN IF ~parsed.ok THEN parsed
       ELSE LET query == to_mongo_query(parsed.c)
            IN IF ~Truthy(after_timestamp) THEN [ok |-> TRUE, query |-> query]
               ELSE IF ~IsStr(after_timestamp) THEN Raised("TypeError")
               ELSE LET dt == fromisoformat(after_timestamp.s)
                    IN IF ~dt.ok THEN dt
                       ELSE LET timestamp ==
                                    Datetime(dt.hour, IF dt.tzinfo = "None" THEN "UTC"
                                                      ELSE dt.tzinfo)
                                gt == FieldQuery("timestamp", [operator |-> "$gt",
                                                               value |-> timestamp])
                            IN [ok |-> TRUE,
                                query |-> IF query # EmptyQuery
                                          THEN [op |-> "$and", args |-> <<query, gt>>]
                                          ELSE gt]

\* find(query): the positions in the collection of the documents selected.
Find(collection, query) ==
    {i \in DOMAIN collection : Selects(query, StoredDocument(collection[i]))}

\* A sort that delivers the selected documents in an order of ascending
\* timestamps.
SortAscending(collection, found) ==
    {order \in [1..Cardinality(found) -> found] :
        /\ \A a, b \in DOMAIN order : a # b => order[a] # order[b]
        /\ \A a, b \in DOMAIN order :
              a < b => collection[order[a]].timestamp.hour
                          <= collection[order[b]].timestamp.hour}

\* sort('timestamp', DESCENDING): the selected documents in an order of
\* descending timestamps; documents of equal timestamp come in any order.
SortDescending(collection, found) ==
    {order \in [1..Cardinality(found) -> found] :
        /\ \A a, b \in DOMAIN order : a # b => order[a] # order[b]
        /\ \A a, b \in DOMAIN order :
              a < b => collection[order[a]].timestamp.hour
                          >= collection[order[b]].timestamp.hour}

\* limit(max_items): a limit of 0 is no limit.
Limit(order, max_items) ==
    IF max_items = Null \/ max_items.n = 0 THEN order
    ELSE SubSeq(order, 1, Min(max_items.n, Len(order)))

\* Lines 55-80 for one call: the exception raised, or the orders the cursor
\* may deliver the selected documents in.
Cursor(collection, conditions, after_timestamp) ==
    LET q == GetQuery(conditions, after_timestamp)
    IN IF ~q.ok THEN q
       ELSE [ok |-> TRUE, orders |-> SortDescending(collection,
                                                    Find(collection, q.query))]

\* message.pop(key, None)
Pop(d, key) == Dict([k \in DOMAIN d.m \ {key} |-> d.m[k]])

\* A loop body that pops nothing.
PopNothing(document) == document

\* Lines 84-85: the body of "async for message in cursor".
PopInternal(document) == Pop(Pop(document, "_id"), "timestamp")

\* The whole of get_messages.  call.messages gives the messages returned by
\* their positions in the collection, call.documents as the documents they
\* are returned as (lines 83-86).
GetMessages(conditions, after_timestamp, max_items) ==
    /\ call.op \in {"none", "get_messages", "store_message"}
    /\ LET cursor == Cursor(stored, conditions, after_timestamp)
           request == [op |-> "get_messages", conditions |-> conditions,
                       after_timestamp |-> after_timestamp, max_items |-> max_items]
       IN IF ~cursor.ok
          THEN call' = [returned |-> FALSE, messages |-> <<>>, documents |-> <<>>]
                          @@ request
          ELSE \E order \in cursor.orders :
                  LET messages == Limit(order, max_items)
                  IN call' = [returned |-> TRUE, messages |-> messages,
                              documents |->
                                  [i \in DOMAIN messages |->
                                      PopInternal(StoredDocument(stored[messages[i]]))]]
                                 @@ request
    /\ UNCHANGED <<relay_vars, stored, root_condition, now>>

\* routers/messages.py lines 22-28: the status the endpoint answers with.
HttpStatus(result) == IF result.returned THEN 200 ELSE 500

EvalNext ==
    \/ \E d \in QueryDescriptions : SetFilterFromJson(d)
    \/ \E id \in EventIds : Matches(id)
    \/ \E d \in GetConditions, a \in AfterTimestamps, n \in MaxItems :
          GetMessages(d, a, n)

EvalSpec == EvalInit /\ [][EvalNext]_vars

(***************************************************************************)
(* The collection over time.  initialize() has created the index on        *)
(* "timestamp" with expireAfterSeconds of CACHE_TTL hours (mongo_handler.py *)
(* lines 17-22); the store's TTL monitor, a background task of the store,  *)
(* deletes the documents that are older than that on each of its passes.   *)
(* get_messages is called while the clock runs.                            *)
(***************************************************************************)
CACHE_TTL == 24   \* constants.py: hours
MaxHours == 45    \* the hour at which the clock of the model stops

\* The greatest timestamp in the collection, 0 for an empty one.
Newest(collection) ==
    IF collection = <<>> THEN 0
    ELSE LET hours == {collection[i].timestamp.hour : i \in DOMAIN collection}
         IN CHOOSE h \in hours : \A g \in hours : g <= h

\* The document is older than expireAfterSeconds at time t.
Expired(entry, t) == entry.timestamp.hour + CACHE_TTL < t

RetentionInit ==
    /\ clients = <<>>
    /\ handler = [c \in Channels |-> "idle"]
    /\ chan = [c \in Channels |-> "new"]
    /\ last_sent = [c \in Channels |-> 0]
    /\ USE_MONGODB = TRUE
    /\ pc = "start"
    /\ exc = NoException
    /\ sweep = NoSweep
    /\ nframes = 0
    /\ message = "none"
    /\ ndecoded = 0
    /\ relayed = <<>>
    /\ store_calls = <<>>
    /\ stored \in Collections
    /\ message_count = 0
    /\ error_count = 0
    /\ root_condition = Filter
    /\ call = NoCall
    /\ now = Newest(stored)
    /\ lifespan = "yield"
    /\ subscriber = "none"
    /\ context = "none"
    /\ added = {}

\* An hour passes.
Tick ==
    /\ now < MaxHours
    /\ now' = now + 1
    /\ UNCHANGED <<relay_vars, stored, root_condition, call>>

\* A pass of the TTL monitor.
Reclaim ==
    /\ \E i \in DOMAIN stored : Expired(stored[i], now)
    /\ stored' = SelectSeq(stored, LAMBDA entry : ~Expired(entry, now))
    /\ UNCHANGED <<relay_vars, root_condition, call, now>>

\* The queries made while the clock runs.
RetentionConditions == {DAllEmpty, DExists}
RetentionAfter == {Null, Str("2025-06-06T17:00:00Z")}

RetentionNext ==
    \/ Tick
    \/ Reclaim
    \/ \E d \in RetentionConditions, a \in RetentionAfter : GetMessages(d, a, Null)

\* The TTL monitor runs again and again (once a minute).
RetentionSpec == RetentionInit /\ [][RetentionNext]_vars /\ WF_vars(Reclaim)

(***************************************************************************)
(* mongo_handler.py: store_message on its own, called with the documents   *)
(* of StoreIds one after the other on an empty collection, and             *)
(* get_messages on what it has stored.                                     *)
(***************************************************************************)
StoreIds == EventIds \cup {"docked", "empty", "stamped"}
RoundTripConditions == {DAllEmpty, DExists}

StoreInit ==
    /\ clients = <<>>
    /\ handler = [c \in Channels |-> "idle"]
    /\ chan = [c \in Channels |-> "new"]
    /\ last_sent = [c \in Channels |-> 0]
    /\ USE_MONGODB = TRUE
    /\ pc = "start"
    /\ exc = NoException
    /\ sweep = NoSweep
    /\ nframes = 0
    /\ message = "none"
    /\ ndecoded = 0
    /\ relayed = <<>>
    /\ store_calls = <<>>
    /\ stored = <<>>
    /\ message_count = 0
    /\ error_count = 0
    /\ root_condition = Filter
    /\ call = NoCall
    /\ now = 0
    /\ lifespan = "yield"
    /\ subscriber = "none"
    /\ context = "none"
    /\ added = {}

\* Lines 29-49: the timestamp is derived and the document inserted; every
\* exception, that of insert_one too, is logged and raised again.
StoreMessage(id, ok) ==
    /\ Len(stored) < MaxStored
    /\ LET ts == StoreTimestamp(Event(id))
       IN IF ts.ok /\ ok
          THEN /\ stored' = Append(stored, StoredEntry(Len(stored) + 1, id))
               /\ call' = [op |-> "store_message", id |-> id, raised |-> "none"]
          ELSE /\ stored' = stored
               /\ call' = [op |-> "store_message", id |-> id,
                           raised |-> IF ts.ok THEN "Exception" ELSE ts.exc]
    /\ UNCHANGED <<relay_vars, root_condition, now>>

StoreNext ==
    \/ \E id \in StoreIds, ok \in BOOLEAN : StoreMessage(id, ok)
    \/ \E d \in RoundTripConditions : GetMessages(d, Null, Null)

StoreSpec == StoreInit /\ [][StoreNext]_vars

(***************************************************************************)
(* Fairness: asyncio runs every task that is ready, so the listener takes  *)
(* its next step whenever the await it is suspended at has completed; the  *)
(* back-off sleep, the index creation and the insert end, and a send ends *)
(* if its connection is not stalled again and again.  Nothing makes a peer *)
(* read, a client connect or speak, or the upstream deliver a frame.       *)
(***************************************************************************)
FairSpec ==
    /\ Spec
    /\ WF_vars(Start)
    /\ WF_vars(\E ok \in BOOLEAN : Initialize(ok))
    /\ WF_vars(WakeUp)
    /\ SF_vars(SendEnds)
    /\ WF_vars(\E ok \in BOOLEAN : InsertOne(ok))

(***************************************************************************)
(* Properties.                                                             *)
(***************************************************************************)
\* C1: when process_message ends, every subscriber that was in the registry
\* when the sweep began and is in it with a filter matching the event has
\* been sent the event, and a subscriber that was sent it has a filter that
\* matches it.
C1_SweepSendsToEveryMatch ==
    [][(pc = "send" /\ pc' # "send") =>
          \A c \in sweep.members \cap Registered(clients') :
              matches(FilterOf(clients', c), Decoded(message)) = "True"
                  <=> last_sent'[c] = sweep.seq]_vars

\* C2: a filter message with a well-formed description of any of the eight
\* types leaves the subscriber registered, with the predicate the description
\* describes as its filter.
C2_ValidFilterIsInstalled ==
    [][\A c \in Channels, d \in ValidDescriptions :
          Receive(c, FilterMessage(d)) =>
              /\ c \in Registered(clients')
              /\ FilterOf(clients', c) = _parse_condition_from_json(d).c]_vars

\* C3: a filter message whose description cannot be constructed closes the
\* subscriber and removes it from the registry, and changes no other entry.
C3_InvalidFilterRemovesSubscriber ==
    [][\A c \in Channels, d \in InvalidDescriptions :
          Receive(c, FilterMessage(d)) =>
              /\ chan'[c] = "closed"
              /\ c \notin Registered(clients')
              /\ \A b \in Registered(clients) \ {c} :
                    /\ b \in Registered(clients')
                    /\ FilterOf(clients', b) = FilterOf(clients, b)]_vars

\* C4: every registry entry belongs to a channel whose handler is running.
C4_RegistryEntriesHaveRunningHandler ==
    \A c \in Registered(clients) : handler[c] = "running"

\* C5: a send that fails never ends process_message with an exception.
C5_SendFailureDoesNotRaise ==
    ~(pc = "dead" /\ exc = [type |-> "Exception", in |-> "process_message"])

\* C6: under fair scheduling a sweep that awaits a send is left again (the
\* ingestor proceeds), and every other subscriber of the sweep that stays
\* connected is sent the event.
C6_SlowSubscriberDoesNotStall ==
    /\ (pc = "send") ~> (pc # "send")
    /\ \A c \in Channels, k \in 1..MaxFrames :
          (pc = "send" /\ sweep.seq = k /\ c \in sweep.members /\ sweep.target # c
              /\ last_sent[c] < k)
            ~> (last_sent[c] >= k \/ handler[c] # "running" \/ chan[c] # "open")

\* C7: the documents sent to a subscriber are sent in the order they were
\* decoded: each send carries a document decoded later than the document of
\* the previous send to the same subscriber, and none that was not decoded.
C7_SentInDecodedOrder ==
    [][SendEnds => /\ last_sent'[sweep.target] > last_sent[sweep.target]
                   /\ last_sent'[sweep.target] <= ndecoded]_vars

\* C7 witness: a subscriber that was sent the first document is being sent
\* the second.
C7_Witness ==
    \E c \in Channels :
        pc = "send" /\ sweep.target = c /\ sweep.seq = 2 /\ last_sent[c] = 1

\* C8: no frame (one that does not inflate, does not decode, or decodes to
\* something that is no object) and no socket error ends the ingest loop.
C8_BadInputNeverEndsLoop ==
    ~(pc = "dead" /\ exc.in = "start")

\* C9: a failure of store_message does not end the ingest loop.
C9_StoreFailureNeverEndsLoop ==
    ~(pc = "dead" /\ exc.in = "store_message")

\* C10: once the loop is through with a decoded document, the document was
\* passed to process_message once and, with the store in use, to
\* store_message once; an empty frame changes nothing but the frame count.
Count(seq, k) == Cardinality({i \in DOMAIN seq : seq[i] = k})

C10_ForwardedExactlyOnce ==
    /\ [](\A k \in 1..ndecoded :
            /\ Count(relayed, k) <= 1
            /\ Count(store_calls, k) <= 1
            /\ (k < ndecoded \/ pc \in {"recv", "sleep", "dead"}) =>
                  /\ Count(relayed, k) = 1
                  /\ USE_MONGODB => Count(store_calls, k) = 1)
    /\ [][Recv([ok |-> TRUE, frame |-> EmptyFrame]) =>
            UNCHANGED <<clients, handler, chan, last_sent, pc, exc, sweep, message,
                        ndecoded, relayed, store_calls, stored, message_count,
                        error_count>>]_vars

\* C11: a subscriber that is in the registry and has sent no filter message
\* holds the filter All[] (matches everything), and when process_message
\* ends, every subscriber holding All[] that was in the registry from the
\* beginning of the sweep to its end has been sent the event.
C11_UnfilteredSubscriberGetsEveryEvent ==
    /\ [](\A c \in Registered(clients) :
            /\ FilterOf(clients, c) = Filter
            /\ \A id \in DecodedIds \ {"array"} :
                  matches(FilterOf(clients, c), Decoded(id)) = "True")
    /\ [][(pc = "send" /\ pc' # "send") =>
            \A c \in sweep.members \cap Registered(clients') :
                FilterOf(clients', c) = Filter => last_sent'[c] = sweep.seq]_vars

\* C12: the query document of a predicate selects a stored event exactly when
\* the predicate matches the event: get_messages called with a constructible
\* description, no after_timestamp and no max_items returns the stored events
\* the predicate matches, and no other.
C12_QuerySelectsWhatMatches ==
    (/\ call.op = "get_messages"
     /\ call.after_timestamp = Null
     /\ call.max_items = Null
     /\ Parsed[call.conditions].ok)
    => /\ call.returned
       /\ {call.messages[i] : i \in DOMAIN call.messages}
             = {i \in DOMAIN stored :
                   matches(Parsed[call.conditions].c, Event(stored[i].id)) = "True"}

\* The value reached from d by looking up the keys one after the other in
\* mappings.
RECURSIVE Descend(_, _)
Descend(d, keys) ==
    IF keys = <<>> THEN [found |-> TRUE, v |-> d]
    ELSE IF IsDict(d) /\ Head(keys) \in DOMAIN d.m
         THEN Descend(d.m[Head(keys)], Tail(keys))
    ELSE [found |-> FALSE]

LeafTypes == {"exists", "exact", "regex", "range", "daterange"}

\* The statement of C13 for the prefixes of the path that leave a key to look
\* up and, if whole is true, for the whole path too: when the value reached
\* after the prefix is a sequence, the evaluation that was
\* made is true exactly when the evaluation of some element with the rest of
\* the path is; when it is neither a sequence nor a mapping with the next
\* key, the evaluation is false.
BranchesAt(whole) ==
    (call.op = "matches" /\ root_condition.type \in LeafTypes) =>
        LET c == root_condition
            n == Len(c.path)
        IN \A j \in 0..(IF whole THEN n ELSE n - 1) :
              LET r == Descend(Event(call.data), SubSeq(c.path, 1, j))
                  rest == SubSeq(c.path, j + 1, n)
              IN r.found =>
                    /\ IsList(r.v) =>
                          (call.result = "True" <=>
                              \E i \in 1..Len(r.v.items) :
                                  check_value(c, r.v.items[i], rest) = "True")
                    /\ (j < n /\ ~IsList(r.v)
                             /\ ~(IsDict(r.v) /\ c.path[j + 1] \in DOMAIN r.v.m)) =>
                          call.result = "False"

C14_EmptyCombinators ==
    call.op = "matches" =>
        /\ root_condition = AllCondition(<<>>) => call.result = "True"
        /\ root_condition = AnyCondition(<<>>) => call.result = "False"
        /\ root_condition = NotCondition(<<>>) => call.result = "True"

\* C14 witness: Not[] and Any[] have been installed from their descriptions
\* and evaluated on an event.
C14_Witness ==
    /\ call.op = "matches"
    /\ root_condition \in {NotCondition(<<>>), AnyCondition(<<>>)}
    /\ call.result = IF root_condition.type = "not" THEN "True" ELSE "False"

\* C15: the evaluation of a predicate that was constructed returns true or
\* false and raises nothing, whatever the event; in particular a DateRange
\* with a naive bound on an aware value, or the reverse.
C15_EvaluationNeverRaises ==
    call.op = "matches" => call.result \in {"True", "False"}

\* The descriptions C16 names: an unknown type, a missing type, path, value,
\* pattern or conditions (at the root or deeper), an invalid regex, and a
\* daterange bound that is no ISO-8601 timestamp.
MalformedDescriptions ==
    {DUnknown, DNoType, DNoPath, DNoValue, DNoPattern, DNoConditions, DDeepBad,
     DBadRegex, DDateBad, DDateEmpty}

\* C16: set_filter_from_json raises for each of these descriptions, and a
\* call that raises leaves the root condition as it was.
C16_MalformedDescriptionRaises ==
    [][\A d \in QueryDescriptions :
          SetFilterFromJson(d) =>
              /\ d \in MalformedDescriptions => call'.exc # "none"
              /\ call'.exc # "none" => root_condition' = root_condition]_vars

\* Range descriptions whose bounds are JSON numbers, whole or fractional, or
\* are left out.
RangeDescriptions == {DRange, DRangeNone, DRangeCount, DRangeMin, DRangeMax, DRangeInt}

\* C17: a range description with JSON numbers as bounds is accepted, and the
\* predicate built from it is true of an event exactly when the value at its
\* path is a number or a numeric string that is no less than min_value (if
\* set) and no greater than max_value (if set).
C17_RangeOfJsonNumbers ==
    /\ [][\A d \in RangeDescriptions :
            SetFilterFromJson(d) =>
                /\ call'.exc = "none"
                /\ root_condition'.type = "range"]_vars
    /\ []((call.op = "matches" /\ root_condition.type = "range") =>
            LET c == root_condition
                r == Descend(Event(call.data), c.path)
            IN call.result = "True" <=>
                  /\ r.found
                  /\ r.v.k \in {"int", "float", "str"}
                  /\ float_ok(r.v)
                  /\ c.min_value # Null => float(r.v).f >= c.min_value.f
                  /\ c.max_value # Null => float(r.v).f <= c.max_value.f)

\* The instant a timestamp string denotes when a naive one is read as UTC:
\* its hour, or -1 for a string that is no timestamp.
InstantOf(d) ==
    LET parsed == fromisoformat(PyStr(d))
    IN IF parsed.ok THEN parsed.hour ELSE -1

\* C18: DateRange reads a naive timestamp as UTC, in its bounds and in the
\* value of the event: its result is true exactly when the instant of the
\* value lies within the instants of the bounds, whether or not the strings
\* carry an offset.
C18_NaiveTimestampsAreUtc ==
    (call.op = "matches" /\ root_condition.type = "daterange") =>
        LET c == root_condition
            r == Descend(Event(call.data), c.path)
        IN call.result = PyBool(/\ r.found
                                /\ InstantOf(r.v) >= 0
                                /\ c.min_value # Null => c.min_value.hour <= InstantOf(r.v)
                                /\ c.max_value # Null => InstantOf(r.v) <= c.max_value.hour)

\* The instant of an after_timestamp argument, a naive one read as UTC.
AfterInstant(after_timestamp) == fromisoformat(after_timestamp.s).hour

\* C19: get_messages called with an after_timestamp and a constructible
\* description returns only events stored with a later timestamp, and all
\* the stored events the predicate matches that have a later timestamp, up
\* to max_items of them.
C19_AfterTimestamp ==
    (/\ call.op = "get_messages"
     /\ IsStr(call.after_timestamp)
     /\ fromisoformat(call.after_timestamp.s).ok
     /\ Parsed[call.conditions].ok)
    => LET after == AfterInstant(call.after_timestamp)
           later == {i \in DOMAIN stored :
                        /\ stored[i].timestamp.hour > after
                        /\ matches(Parsed[call.conditions].c, Event(stored[i].id))
                              = "True"}
           got == {call.messages[i] : i \in DOMAIN call.messages}
       IN /\ call.returned
          /\ \A i \in got : stored[i].timestamp.hour > after
          /\ \/ later \subseteq got
             \/ /\ call.max_items # Null
                /\ call.max_items.n > 0
                /\ Len(call.messages) = call.max_items.n

\* The first half of C19 alone: events returned have a later timestamp.
C19_OnlyLaterEvents ==
    (call.op = "get_messages" /\ call.returned /\ IsStr(call.after_timestamp)) =>
        \A i \in DOMAIN call.messages :
            stored[call.messages[i]].timestamp.hour > AfterInstant(call.after_timestamp)

\* C20: the list get_messages returns is ordered newest first: of two events
\* in it, the one earlier in the list was stored with a timestamp no less
\* than that of the later one, with or without max_items and after_timestamp.
C20_NewestFirst ==
    (call.op = "get_messages" /\ call.returned) =>
        \A a, b \in DOMAIN call.messages :
            a < b => stored[call.messages[a]].timestamp.hour
                        >= stored[call.messages[b]].timestamp.hour

\* C20 witness: a call with after_timestamp and max_items has returned two
\* events of different timestamps, and the newer of them was stored later.
C20_Witness ==
    /\ call.op = "get_messages" /\ call.returned
    /\ call.after_timestamp # Null /\ call.max_items # Null
    /\ Len(call.messages) = 2
    /\ call.messages[1] > call.messages[2]
    /\ stored[call.messages[1]].timestamp.hour > stored[call.messages[2]].timestamp.hour

\* C21: when max_items is supplied, 0 included, get_messages returns at most
\* max_items events, and they are the newest max_items of the stored events
\* its query selects (all of them when there are fewer).
C21_AtMostMaxItems ==
    (call.op = "get_messages" /\ call.returned /\ call.max_items # Null) =>
        LET n == call.max_items.n
            found == Find(stored, GetQuery(call.conditions, call.after_timestamp).query)
            got == {call.messages[i] : i \in DOMAIN call.messages}
        IN /\ Len(call.messages) = Min(n, Cardinality(found))
           /\ Cardinality(got) = Len(call.messages)
           /\ got \subseteq found
           /\ \A i \in got, j \in found \ got :
                 stored[i].timestamp.hour >= stored[j].timestamp.hour

\* C22: no event get_messages returns has the key "_id" of the store or the
\* top-level key "timestamp" store_message added; everything else, the
\* payload's message.timestamp included, is as the event was received.
C22_InternalFieldsStripped ==
    (call.op = "get_messages" /\ call.returned) =>
        \A i \in DOMAIN call.documents :
            /\ "_id" \notin DOMAIN call.documents[i].m
            /\ "timestamp" \notin DOMAIN call.documents[i].m
            /\ call.documents[i] = Event(stored[call.messages[i]].id)

\* C22 witness: an event with a message.timestamp of its own was returned,
\* and the timestamp is in the returned document.
C22_Witness ==
    /\ call.op = "get_messages" /\ call.returned
    /\ \E i \in DOMAIN call.documents :
          /\ Has(StoredDocument(stored[call.messages[i]]), "_id")
          /\ Has(call.documents[i].m["message"], "timestamp")

\* C23: get_messages never returns a document that is older than the TTL,
\* reclaimed by the store or not yet, and every document that is older than
\* the TTL is eventually reclaimed.
C23_ExpiredNeverReturned ==
    /\ [][(call' # call /\ call'.op = "get_messages" /\ call'.returned) =>
            \A i \in DOMAIN call'.messages :
                ~Expired(stored[call'.messages[i]], now)]_vars
    /\ \A k \in 1..Len(Arrivals) :
          (\E i \in DOMAIN stored : stored[i].seq = k /\ Expired(stored[i], now))
              ~> ~(\E i \in DOMAIN stored : stored[i].seq = k)

\* C24: a query whose description is invalid (an unknown type, a missing
\* field, an invalid regex or date bound, or no filters at all) returns no
\* list: get_messages yields None, the endpoint answers 500, and the
\* collection is as it was.
C24_InvalidQueryFails ==
    [][\A d \in GetConditions \cap (MalformedDescriptions \cup {DNoFilters}),
          a \in AfterTimestamps, n \in MaxItems :
          GetMessages(d, a, n) =>
              /\ ~call'.returned
              /\ HttpStatus(call') = 500
              /\ stored' = stored]_vars

\* C25: a message that is a JSON object with a type other than "filter" is
\* ignored: the subscriber stays registered with its handler running, and
\* the registry, its own filter included, is as it was.
C25_OtherTypeIgnored ==
    [][\A c \in Channels :
          Receive(c, PingMessage) =>
              /\ c \in Registered(clients')
              /\ handler'[c] = "running"
              /\ chan'[c] = chan[c]
              /\ clients' = clients]_vars

\* C25 witness: two subscribers are registered and the handler of one is at
\* "async for"; it has been sent a message of another type (handling it left
\* the state as it was).
C25_Witness ==
    /\ Registered(clients) = Channels
    /\ \E c \in Channels : handler[c] = "running" /\ ENABLED Receive(c, PingMessage)

\* C26: every filter in the registry is Filter() (All[]) or the condition
\* that _parse_condition built completely from a description; the filter of
\* a registered client changes only when that client sends a filter message
\* from which the condition is built completely, and it changes to that
\* condition.  So a message whose construction fails changes no filter.
C26_OnlyCompleteFilters ==
    /\ [](\A c \in Registered(clients) :
            \/ FilterOf(clients, c) = Filter
            \/ \E d \in Descriptions :
                  /\ _parse_condition(d).ok
                  /\ FilterOf(clients, c) = _parse_condition(d).c)
    /\ [][\A c \in Registered(clients) \cap Registered(clients') :
            FilterOf(clients', c) # FilterOf(clients, c) =>
                \E d \in Descriptions :
                   /\ Receive(c, FilterMessage(d))
                   /\ _parse_condition(d).ok
                   /\ FilterOf(clients', c) = _parse_condition(d).c]_vars

\* C26 witness: a client has sent a filter message whose construction failed
\* (its entry is deleted, its connection closed) while another client is
\* registered, its filter the one it was registered with.
C26_Witness ==
    \E c, b \in Channels :
        /\ c \notin Registered(clients) /\ handler[c] = "done" /\ chan[c] = "closed"
        /\ b \in Registered(clients) /\ handler[b] = "running"
        /\ FilterOf(clients, b) = Filter
        /\ ~_parse_condition(DDeepBad).ok

\* C27: when the registry has changed while process_message was suspended
\* in a send, the sweep does not end with the iterator's RuntimeError: it
\* runs to its end, and then every client that was registered from its
\* start to its end and whose filter matches has been sent the document.
C27_RegistryChangeDoesNotFailSweep ==
    [][SendEnds =>
          /\ ~(pc' = "dead" /\ exc'.type = "RuntimeError")
          /\ pc' # "send" =>
                \A c \in sweep.members \cap Registered(clients') :
                    matches(FilterOf(clients', c), Decoded(message)) = "True"
                        => last_sent'[c] = sweep.seq]_vars

\* C28: when a send of a sweep ends with ConnectionClosed, the client it was
\* for is no longer in the registry once the sweep runs on, so that no later
\* sweep sends to it.
C28_FailedSendRemovesSubscriber ==
    [][(SendEnds /\ SendResult(chan[sweep.target]) = "ConnectionClosed") =>
          sweep.target \notin Registered(clients')]_vars

\* C29: a receive that times out (zmq.Again) is followed by the next receive:
\* the error counter is not incremented and the loop does not sleep.
C29_TimeoutIsNoError ==
    [][Recv([ok |-> FALSE, exc |-> "Again"]) =>
          /\ pc' = "recv"
          /\ error_count' = error_count]_vars

\* C30: when the shutdown of the application has completed, the task of the
\* listener has ended (its loop runs no more), the socket of the listener is
\* closed and its context is terminated.
C30_ShutdownReleasesSocket ==
    lifespan = "completed" =>
        /\ pc = "cancelled"
        /\ subscriber # "open"
        /\ context # "active"

\* C31: once the task of the listener has ended with an exception the
\* application serves no more: no client is registered after that.
C31_DeadIngestorStopsService ==
    [][\A c \in Channels : (pc = "dead" /\ lifespan = "yield") => ~Connect(c)]_vars

\* C32: with the store in use, start awaits initialize before anything else;
\* store_message is called only after initialize has returned, never while
\* it is awaited and never after it has raised: its failure ends the task.
C32_InitializeBeforeStore ==
    /\ [][Start => (USE_MONGODB <=> pc' = "initialize")]_vars
    /\ [][Initialize(FALSE) => pc' = "dead"]_vars
    /\ [](store_calls # <<>> =>
            /\ USE_MONGODB
            /\ pc \notin {"start", "initialize"}
            /\ exc.in # "initialize")

\* C32 witness: initialize has returned and store_message has been called
\* for the first document.
C32_Witness ==
    USE_MONGODB /\ pc = "insert_one" /\ store_calls = <<1>>

\* The string the claim takes the ingestion timestamp from: message.timestamp
\* when it is there and not empty, else header.gatewayTimestamp, else none.
C33_Source(id) ==
    LET ev == Event(id).m
        has_own == /\ "message" \in DOMAIN ev
                   /\ "timestamp" \in DOMAIN ev["message"].m
                   /\ ev["message"].m["timestamp"] # Str("")
        has_gateway == /\ "header" \in DOMAIN ev
                       /\ "gatewayTimestamp" \in DOMAIN ev["header"].m
    IN IF has_own THEN ev["message"].m["timestamp"]
       ELSE IF has_gateway THEN ev["header"].m["gatewayTimestamp"]
       ELSE Null

\* C33: store_message takes the timestamp from message.timestamp when that is
\* present and not empty, otherwise from header.gatewayTimestamp; with
\* neither it raises and inserts nothing; otherwise the document inserted
\* carries the hour written in that string, in UTC (also when the string
\* names no zone).
C33_TimestampDerivation ==
    [][\A id \in StoreIds :
          StoreMessage(id, TRUE) =>
              IF C33_Source(id) = Null
              THEN call'.raised # "none" /\ stored' = stored
              ELSE /\ call'.raised = "none"
                   /\ Len(stored') = Len(stored) + 1
                   /\ stored'[Len(stored')].id = id
                   /\ stored'[Len(stored')].timestamp =
                        Datetime(fromisoformat(C33_Source(id).s).hour, "UTC")]_vars

\* C33 witness: the collection holds a document stored with its own naive
\* timestamp (17:00, its gateway timestamp being 19:00), one stored with the
\* gateway timestamp in place of an empty one, and one call was rejected.
C33_Witness ==
    /\ \E i \in DOMAIN stored :
          stored[i].id = "docked" /\ stored[i].timestamp = Datetime(17, "UTC")
    /\ \E i \in DOMAIN stored :
          stored[i].id = "empty" /\ stored[i].timestamp = Datetime(18, "UTC")
    /\ call.op = "store_message" /\ call.id = "market" /\ call.raised = "ValueError"

\* C34: every send of a sweep is given the same text, the serialization of
\* the document as json.loads returned it, without the keys "timestamp" and
\* "_id" that store_message adds to the same dict; the serialization never
\* fails on them.
C34_SentTextIsDecodedEvent ==
    /\ [](pc = "send" =>
            /\ sweep.json_message = Decoded(message)
            /\ DOMAIN sweep.json_message.m \cap {"timestamp", "_id"} = {})
    /\ [][(pc = "send" /\ pc' = "send") =>
            sweep'.json_message = sweep.json_message]_vars
    /\ [](exc.in # "json.dumps")

\* C34 witness: the first document has been stored (its dict was given both
\* keys), and the second is being sent to the second of two clients.
C34_Witness ==
    /\ USE_MONGODB /\ Len(stored) = 1
    /\ pc = "send" /\ sweep.seq = 2 /\ sweep.target = 2
    /\ last_sent[1] = 2

\* C35: every stored document that the predicate of a query matches is among
\* the documents the query returns, equal to the event as it was passed to
\* store_message (also an event with top-level keys "timestamp" or "_id").
C35_RoundTrip ==
    (call.op = "get_messages" /\ call.returned) =>
        \A i \in DOMAIN stored :
            matches(_parse_condition_from_json(call.conditions).c,
                    Event(stored[i].id)) = "True"
                => \E j \in DOMAIN call.documents :
                      call.documents[j] = Event(stored[i].id)

\* C36: process_message is entered for a document only from the await of
\* recv, with no sweep and no insert in progress, and when the document
\* decoded before it has been through its sweep and (with the store in use)
\* has been inserted; an insert is awaited only when the sweep of its
\* document has ended.
C36_OneEventAtATime ==
    /\ [][relayed' # relayed =>
            /\ pc = "recv" /\ sweep = NoSweep
            /\ relayed' = Append(relayed, ndecoded')
            /\ ndecoded' > 1 =>
                  /\ relayed[Len(relayed)] = ndecoded' - 1
                  /\ USE_MONGODB =>
                        \E i \in DOMAIN stored : stored[i].seq = ndecoded' - 1]_vars
    /\ [](sweep # NoSweep => pc \in {"send", "dead"})
    /\ [](pc = "insert_one" =>
            /\ sweep = NoSweep
            /\ store_calls[Len(store_calls)] = ndecoded
            /\ relayed[Len(relayed)] = ndecoded)

\* C36 witness: the first document has been sent and inserted, and the sweep
\* of the second awaits a send.
C36_Witness ==
    /\ USE_MONGODB /\ pc = "send" /\ sweep.seq = 2
    /\ \E i \in DOMAIN stored : stored[i].seq = 1
    /\ \E c \in Channels : last_sent[c] = 1

====
